---- MODULE Spec2Model ----
(***************************************************************************)
(* Model of examples/openshift/scripts/docling_module/processor.py:        *)
(* DoclingPDFProcessor (validate_file, process, process_directory,         *)
(* get_config, update_config), docling_process and the __main__ driver.    *)
(*                                                                         *)
(* Strings the code transforms (file names, OCR engine names) are          *)
(* sequences of one-character strings, so that .lower(), Path.suffix and   *)
(* the glob pattern are computed.  A path is the sequence of its           *)
(* components.  The docling library is the environment: what a call of it  *)
(* returns or raises is an input of the action that makes the call.        *)
(***************************************************************************)
EXTENDS Naturals, Sequences, FiniteSets, TLC

VARIABLES
    fs,        \* the filesystem: path -> "absent" | "file" | "dir"
    proc,      \* the DoclingPDFProcessor instance: [constructed, config, converter]
    given,     \* the configuration last handed to __init__ / update_config
    ret,       \* the last call: [op, arg, raised, value]
    calls,     \* the paths handed to converter.convert during the last call
    lib,       \* what the library did in each of those conversions
    enum,      \* the files the last glob enumerated, in enumeration order
    pc,        \* __main__: the driver's position
    exit_code, \* __main__: << >> while it runs, then <<the exit status>>
    failed,    \* __main__: the examples that got a failed result
    written    \* __main__: the output files written

vars == <<fs, proc, given, ret, calls, lib, enum, pc, exit_code, failed, written>>

(***************************************************************************)
(* Bounds                                                                  *)
(***************************************************************************)
\* At most this many entries exist directly under the input directory.
MaxEntries == 3

(***************************************************************************)
(* Strings                                                                 *)
(***************************************************************************)
UpperCase == <<"A","B","C","D","E","F","G","H","I","J","K","L","M",
               "N","O","P","Q","R","S","T","U","V","W","X","Y","Z">>
LowerCase == <<"a","b","c","d","e","f","g","h","i","j","k","l","m",
               "n","o","p","q","r","s","t","u","v","w","x","y","z">>

\* the lower-case letter of each upper-case letter
ToLower ==
    [c \in {UpperCase[i] : i \in DOMAIN UpperCase} |->
        LowerCase[CHOOSE i \in DOMAIN UpperCase : UpperCase[i] = c]]

\* str.lower() on one character
LowerChar(c) == IF c \in DOMAIN ToLower THEN ToLower[c] ELSE c

\* str.lower()
Lower(s) == [i \in DOMAIN s |-> LowerChar(s[i])]

\* str.rfind("."), 1-based; 0 when there is no dot
RFindDot(s) ==
    IF \E i \in DOMAIN s : s[i] = "."
    THEN CHOOSE i \in DOMAIN s : s[i] = "." /\ \A j \in DOMAIN s : s[j] = "." => j <= i
    ELSE 0

\* PurePath.name: the last component
Name(path) == path[Len(path)]

\* PurePath.suffix: from the last dot of the name, unless the dot leads or ends it
Suffix(path) ==
    LET name == Name(path)
        i    == RFindDot(name)
    IN  IF 1 < i /\ i < Len(name) THEN SubSeq(name, i, Len(name)) ELSE << >>

\* PurePath.stem: the name without its suffix
Stem(path) ==
    LET name == Name(path)
        i    == RFindDot(name)
    IN  IF 1 < i /\ i < Len(name) THEN SubSeq(name, 1, i - 1) ELSE name

\* PurePath.parent
Parent(path) == SubSeq(path, 1, Len(path) - 1)

DotPdf == <<".", "p", "d", "f">>

\* self._supported_extensions
supported_extensions == {DotPdf}

\* the pattern "*.pdf" against one entry name (case-sensitive, as on POSIX)
MatchesGlob(name) ==
    /\ Len(name) >= Len(DotPdf)
    /\ SubSeq(name, Len(name) - Len(DotPdf) + 1, Len(name)) = DotPdf

(***************************************************************************)
(* The filesystem                                                          *)
(***************************************************************************)
InDir   == << <<"i","n">> >>
OtherDir == << <<"n","o">> >>

N_a    == <<"a", ".", "p", "d", "f">>
N_b    == <<"b", ".", "P", "D", "F">>
N_c    == <<"c", ".", "t", "x", "t">>
N_d    == <<"d", ".", "p", "d", "f">>

EntryNames == {N_a, N_b, N_c, N_d}

Entries == {InDir \o <<n>> : n \in EntryNames}

\* a file inside the subdirectory in/d.pdf
Nested == InDir \o <<N_d, N_a>>

Paths == {InDir, OtherDir, Nested} \cup Entries

\* what the model takes st_size of a regular file to be
StatSize(path) == Len(Name(path))

\* the filesystems of the model: the input directory is missing, a regular
\* file, or a directory holding at most MaxEntries of the entries; in/d.pdf
\* may be a subdirectory, and only then holds a file of its own
FileSystems ==
    {f \in [Paths -> {"absent", "file", "dir"}] :
        /\ f[OtherDir] = "absent"
        /\ \A p \in Entries : f[p] = "dir" => Name(p) = N_d
        /\ f[Nested] # "dir"
        /\ f[InDir] # "dir" => \A p \in Entries : f[p] = "absent"
        /\ f[InDir \o <<N_d>>] # "dir" => f[Nested] = "absent"
        /\ Cardinality({p \in Entries : f[p] # "absent"}) <= MaxEntries}

\* Path.exists()
Exists(path) == fs[path] # "absent"

\* Path.is_file()
IsFile(path) == fs[path] = "file"

\* Path.is_dir()
IsDir(path) == fs[path] = "dir"

\* the direct children of a directory that exist
Children(dir) == {p \in Paths : Len(p) = Len(dir) + 1 /\ Parent(p) = dir /\ Exists(p)}

\* a glob that descends into subdirectories ("**/*.pdf")
GlobRecursive(dir) ==
    IF IsDir(dir)
    THEN {p \in Paths : Len(p) > Len(dir) /\ SubSeq(p, 1, Len(dir)) = dir
                        /\ Exists(p) /\ MatchesGlob(Name(p))}
    ELSE {}

\* dir_path.glob("*.pdf"): the matching direct children (nothing for a
\* path that is no directory)
GlobPdf(dir) ==
    IF IsDir(dir) THEN {p \in Children(dir) : MatchesGlob(Name(p))} ELSE {}

\* the orders in which a set of files may be enumerated
Orders(S) ==
    {s \in [1..Cardinality(S) -> S] : \A i, j \in 1..Cardinality(S) : s[i] = s[j] => i = j}

(***************************************************************************)
(* DocumentConfig and the converter built from it                          *)
(***************************************************************************)
RAPIDOCR  == <<"r","a","p","i","d","o","c","r">>
TESSEROCR == <<"t","e","s","s","e","r","o","c","r">>
TESSERACT == <<"t","e","s","s","e","r","a","c","t">>
RapidOCR_Mixed  == <<"R","a","p","i","d","O","C","R">>
TESSERACT_Upper == <<"T","E","S","S","E","R","A","C","T">>
EasyOCR_Mixed   == <<"E","a","s","y","O","C","R">>

\* the field defaults of the DocumentConfig dataclass
DefaultConfig ==
    [extract_images    |-> TRUE,
     ocr_enabled       |-> FALSE,
     image_export_mode |-> "embedded",
     ocr_engine        |-> RAPIDOCR,
     force_ocr         |-> FALSE]

\* the configuration of example 2 of the driver
CustomConfig == [DefaultConfig EXCEPT !.extract_images = FALSE]

OcrEngines == {RAPIDOCR, RapidOCR_Mixed, TESSEROCR, TESSERACT_Upper, EasyOCR_Mixed}

\* the configurations handed to constructors and update_config
AllConfigs ==
    {[DefaultConfig EXCEPT !.ocr_enabled = o, !.ocr_engine = e, !.image_export_mode = m] :
        o \in BOOLEAN, e \in OcrEngines, m \in {"embedded", "inline"}}
    \cup {CustomConfig}

\* an image_export_mode that is no member of ImageRefMode
InlineConfig == [DefaultConfig EXCEPT !.image_export_mode = "inline"]

\* OCR with an engine named in upper case
TesseractConfig ==
    [DefaultConfig EXCEPT !.ocr_enabled = TRUE, !.ocr_engine = TESSERACT_Upper]

\* OCR with an engine the code does not know
EasyOcrConfig ==
    [DefaultConfig EXCEPT !.ocr_enabled = TRUE, !.ocr_engine = EasyOCR_Mixed]

\* the configurations handed in where files are processed
Configs == {CustomConfig, InlineConfig, TesseractConfig, EasyOcrConfig}

\* a caller's "no configuration" (config=None)
NoConfig == [none |-> TRUE]

\* no argument; the return value None
Nothing == [none |-> TRUE]

\* PdfPipelineOptions() before the OCR branch sets ocr_options
DefaultOcrOptions == [cls |-> "OcrOptions", force_full_page_ocr |-> FALSE]

\* the members of docling's ImageRefMode
ImageRefModes == {"placeholder", "embedded", "referenced"}

\* _initialize_converter with an else branch that falls back to rapidocr
InitializeConverterNoEngineCheck(config) ==
    LET engine == Lower(config.ocr_engine)
        opts(c) == [cls |-> c, force_full_page_ocr |-> config.force_ocr]
        conv(o) == [raised |-> FALSE,
                    value  |-> [do_ocr |-> config.ocr_enabled,
                                generate_page_images |-> config.extract_images,
                                ocr_options |-> o]]
    IN  IF ~config.ocr_enabled THEN conv(DefaultOcrOptions)
        ELSE IF engine = TESSEROCR THEN conv(opts("TesseractOcrOptions"))
        ELSE IF engine = TESSERACT THEN conv(opts("TesseractCliOcrOptions"))
        ELSE conv(opts("RapidOcrOptions"))

\* _initialize_converter with self._config = config: the converter, or the
\* ValueError it raises
InitializeConverter(config) ==
    LET engine == Lower(config.ocr_engine)
        opts(c) == [cls |-> c, force_full_page_ocr |-> config.force_ocr]
        conv(o) == [raised |-> FALSE,
                    value  |-> [do_ocr |-> config.ocr_enabled,
                                generate_page_images |-> config.extract_images,
                                ocr_options |-> o]]
    IN  IF ~config.ocr_enabled THEN conv(DefaultOcrOptions)
        ELSE IF engine = RAPIDOCR  THEN conv(opts("RapidOcrOptions"))
        ELSE IF engine = TESSEROCR THEN conv(opts("TesseractOcrOptions"))
        ELSE IF engine = TESSERACT THEN conv(opts("TesseractCliOcrOptions"))
        ELSE [raised |-> TRUE,
              value  |-> [exc |-> "ValueError",
                          msg |-> <<"Unknown OCR engine: ", engine,
                                    ". Supported: rapidocr, tesserocr, tesseract">>]]

\* no processor has been constructed
NoProc == [constructed |-> FALSE, config |-> NoConfig, converter |-> NoConfig]

\* a constructor that always takes DocumentConfig()
NewProcessorIgnoresConfig(config) ==
    [raised |-> FALSE,
     value  |-> [constructed |-> TRUE, config |-> DefaultConfig,
                 converter |-> InitializeConverter(DefaultConfig).value]]

\* DoclingPDFProcessor(config): the instance, or the exception of
\* _initialize_converter (then no instance comes to exist)
NewProcessor(config) ==
    LET cfg  == IF config = NoConfig THEN DefaultConfig ELSE config
        made == InitializeConverter(cfg)
    IN  IF made.raised
        THEN [raised |-> TRUE, value |-> made.value]
        ELSE [raised |-> FALSE,
              value  |-> [constructed |-> TRUE, config |-> cfg, converter |-> made.value]]

(***************************************************************************)
(* What the docling library does in one conversion (the environment)       *)
(***************************************************************************)
\* A Python str that the code only passes on is the sequence of its parts;
\* the empty str is the empty sequence.
EmptyStr == << >>

\* a document with text; its result object has a confidence object and the
\* document has neither page_count nor metadata
DocText ==
    [markdown   |-> <<"# Title">>,
     dict       |-> [schema_name |-> "DoclingDocument", texts |-> <<"Title">>],
     confidence |-> [kind |-> "object", mean_score |-> "0.9"],
     page_count |-> [has |-> FALSE, value |-> "0"],
     metadata   |-> [has |-> FALSE, value |-> ""]]

\* a document of blank pages: nothing to export as markdown; its confidence
\* is a dict, and the document has page_count and metadata
DocBlank ==
    [markdown   |-> EmptyStr,
     dict       |-> [schema_name |-> "DoclingDocument", texts |-> << >>],
     confidence |-> [kind |-> "dict", mean_score |-> "0.1"],
     page_count |-> [has |-> TRUE, value |-> "2"],
     metadata   |-> [has |-> TRUE, value |-> "origin"]]

Docs == {DocText, DocBlank}

\* the calls of process that may raise, in the order process makes them
Stages == <<"convert", "export_to_markdown", "export_to_dict", "json.dumps", "stat">>

StageSet == {Stages[i] : i \in DOMAIN Stages}

\* one conversion: the call that raises ("none": no call raises) and the
\* document the converter produces
Outcomes ==
    {[raises |-> "none", doc |-> d] : d \in Docs}
    \cup {[raises |-> r, doc |-> DocText] : r \in StageSet}

\* the library is not called
NoConversion == [raises |-> "none", doc |-> DocText]

\* what the library may do in the conversions a call of process makes for
\* file_path: it is asked to convert only a file that passes validate_file
\* (validate_file is defined below, with the processor)
Converts(file_path) ==
    /\ fs[file_path] = "file"
    /\ Lower(Suffix(file_path)) = DotPdf

OutcomesFor(file_path) == IF Converts(file_path) THEN Outcomes ELSE {NoConversion}

\* what the library may do in the conversions of a batch over files
BatchOutcomes(files) ==
    [1..Cardinality({i \in DOMAIN files : Converts(files[i])}) -> Outcomes]

(***************************************************************************)
(* ProcessingResult                                                        *)
(***************************************************************************)
\* Optional[str]
None == [is_none |-> TRUE, text |-> << >>]
Str(parts) == [is_none |-> FALSE, text |-> parts]

\* the empty dict
EmptyDict == [k \in {} |-> TRUE]

ProcessingResult(success, content, json_content, metadata, error_message, file_path) ==
    [success       |-> success,
     content       |-> content,
     json_content  |-> json_content,
     metadata      |-> metadata,
     error_message |-> error_message,
     file_path     |-> file_path]

\* json.dumps(d, ensure_ascii=False)
JsonDumps(d) == <<"json.dumps", d>>

(***************************************************************************)
(* DoclingPDFProcessor                                                     *)
(***************************************************************************)
\* validate_file without the is_file test
validate_file_no_is_file(file_path) ==
    /\ Exists(file_path)
    /\ Lower(Suffix(file_path)) \in supported_extensions

\* validate_file comparing the suffix as it is spelled
validate_file_case_sensitive(file_path) ==
    /\ Exists(file_path)
    /\ IsFile(file_path)
    /\ Suffix(file_path) \in supported_extensions

\* validate_file(file_path)
validate_file(file_path) ==
    IF ~Exists(file_path) THEN FALSE
    ELSE IF ~IsFile(file_path) THEN FALSE
    ELSE IF Lower(Suffix(file_path)) \notin supported_extensions THEN FALSE
    ELSE TRUE

\* _extract_metadata without the file size
extract_metadata_no_size(doc, file_path) ==
    [file_name        |-> Name(file_path),
     file_extension   |-> Suffix(file_path),
     file_path        |-> file_path,
     num_pages        |-> IF doc.page_count.has THEN doc.page_count.value ELSE "0",
     confidence_score |-> doc.confidence.mean_score]

\* _extract_metadata(docling_result, file_path)
extract_metadata(doc, file_path) ==
    LET confidence_score ==
            IF doc.confidence.kind \in {"object", "dict"}
            THEN doc.confidence.mean_score ELSE "0.0"
        metadata ==
            [file_name        |-> Name(file_path),
             file_size        |-> StatSize(file_path),
             file_extension   |-> Suffix(file_path),
             file_path        |-> file_path,
             num_pages        |-> IF doc.page_count.has THEN doc.page_count.value ELSE "0",
             confidence_score |-> confidence_score]
    IN  IF doc.metadata.has
        THEN metadata @@ [k \in {"document_metadata"} |-> doc.metadata.value]
        ELSE metadata

\* an except branch that reports str(e) alone
ErrorResultMessageOnly(file_path, e) ==
    [success |-> FALSE, content |-> << >>, json_content |-> << >>, metadata |-> EmptyDict,
     error_message |-> Str(<<e>>), file_path |-> file_path]

\* the result of the except branch of process
ErrorResult(file_path, e) ==
    ProcessingResult(FALSE, EmptyStr, EmptyStr, EmptyDict,
        Str(<<"Error processing ", file_path, ": ", e, "Traceback: ",
              <<"Traceback (most recent call last):", e>> >>),
        file_path)

\* an "Invalid file" result that records the file's name, not the path given
InvalidResultOfName(file_path) ==
    ProcessingResult(FALSE, EmptyStr, EmptyStr, EmptyDict, Str(<<"Invalid file">>),
                     <<Name(file_path)>>)

\* the result of process for a file that fails validate_file
InvalidResult(file_path) ==
    ProcessingResult(FALSE, EmptyStr, EmptyStr, EmptyDict, Str(<<"Invalid file">>), file_path)

\* process(file_path) on the processor self, the library behaving as o: the
\* result and the calls made to self._converter.convert
process(self, file_path, o) ==
    IF ~validate_file(file_path)
    THEN [result |-> InvalidResult(file_path), calls |-> << >>]
    ELSE
      LET markdown_content == o.doc.markdown
          json_content_str == JsonDumps(o.doc.dict)
          metadata         == extract_metadata(o.doc, file_path)
          result ==
            IF o.raises = "convert" THEN ErrorResult(file_path, "convert")
            ELSE IF self.config.image_export_mode \notin ImageRefModes
                 THEN ErrorResult(file_path, "ImageRefMode")
            ELSE IF o.raises \in {"export_to_markdown", "export_to_dict",
                                  "json.dumps", "stat"}
                 THEN ErrorResult(file_path, o.raises)
            ELSE ProcessingResult(TRUE, markdown_content, json_content_str,
                                  metadata, None, file_path)
      IN  [result |-> result, calls |-> <<file_path>>]

\* a loop that ends at the first failed result
RECURSIVE ForEachStopAtFailure(_, _, _, _)
ForEachStopAtFailure(self, files, outs, acc) ==
    IF files = << >> THEN acc
    ELSE LET k == Len(acc.calls) + 1
             r == process(self, Head(files), IF k \in DOMAIN outs THEN outs[k] ELSE NoConversion)
             next == [results |-> Append(acc.results, r.result),
                      calls   |-> acc.calls \o r.calls]
         IN  IF r.result.success
             THEN ForEachStopAtFailure(self, Tail(files), outs, next)
             ELSE next

\* the loop of process_directory over the enumerated files: the results
\* appended and the converter calls made, outs[i] being what the library
\* does in the i-th conversion
RECURSIVE ForEach(_, _, _, _)
ForEach(self, files, outs, acc) ==
    IF files = << >> THEN acc
    ELSE LET k == Len(acc.calls) + 1
             r == process(self, Head(files), IF k \in DOMAIN outs THEN outs[k] ELSE NoConversion)
         IN  ForEach(self, Tail(files), outs,
                     [results |-> Append(acc.results, r.result),
                      calls   |-> acc.calls \o r.calls])

\* process_directory without the test of the directory: the glob of a
\* missing directory is empty
process_directory_no_check(self, directory_path, files, outs) ==
    LET done == ForEach(self, files, outs, [results |-> << >>, calls |-> << >>])
    IN  [raised |-> FALSE, value |-> done.results, calls |-> done.calls]

\* process_directory(directory_path), the glob enumerating in the order
\* files: the ValueError, or the list of results
process_directory(self, directory_path, files, outs) ==
    IF ~Exists(directory_path) \/ ~IsDir(directory_path)
    THEN [raised |-> TRUE,
          value  |-> [exc |-> "ValueError",
                      msg |-> <<"Directory ", directory_path,
                                " does not exist or is not a directory">>],
          calls  |-> << >>]
    ELSE LET done == ForEach(self, files, outs, [results |-> << >>, calls |-> << >>])
         IN  [raised |-> FALSE, value |-> done.results, calls |-> done.calls]

\* get_config()
get_config(self) == self.config

\* update_config(config): the processor afterwards, and whether
\* _initialize_converter raised (self._config is assigned before it runs)
update_config(self, config) ==
    LET made == InitializeConverter(config)
    IN  IF made.raised
        THEN [raised |-> TRUE, value |-> made.value,
              self   |-> [self EXCEPT !.config = config]]
        ELSE [raised |-> FALSE, value |-> Nothing,
              self   |-> [self EXCEPT !.config = config, !.converter = made.value]]

\* docling_process(file_path, config): a processor of its own, then process
docling_process(file_path, config, o) ==
    LET made == NewProcessor(config)
    IN  IF made.raised
        THEN [raised |-> TRUE, value |-> made.value, calls |-> << >>]
        ELSE LET r == process(made.value, file_path, o)
             IN  [raised |-> FALSE, value |-> r.result, calls |-> r.calls]

(***************************************************************************)
(* Calls on one processor instance                                         *)
(***************************************************************************)
\* the last call: its name, its argument, whether it raised and what it
\* returned or raised; arguments and values carry their kind
Return(op, arg, raised, value) ==
    [op |-> op, arg |-> arg, raised |-> raised, value |-> value]

APath(path) == [path |-> path]
AConfig(config) == [config |-> config]
VBool(b) == [bool |-> b]
VResult(result) == [result |-> result]
VResults(results) == [results |-> results]
VConfig(config) == [config |-> config]
VError(e) == [error |-> e]
VInstance == [instance |-> TRUE]

NoCall == Return("none", Nothing, FALSE, Nothing)

driver == <<pc, exit_code, failed, written>>

Init ==
    /\ fs \in FileSystems
    /\ proc = NoProc
    /\ given = NoConfig
    /\ ret = NoCall
    /\ calls = << >>
    /\ lib = << >>
    /\ enum = << >>
    /\ pc = "library"
    /\ exit_code = << >>
    /\ failed = {}
    /\ written = {}

\* processor = DoclingPDFProcessor(config)
Construct(config) ==
    /\ pc = "library"
    /\ ~proc.constructed
    /\ LET made == NewProcessor(config)
       IN  /\ proc' = IF made.raised THEN proc ELSE made.value
           /\ given' = IF made.raised THEN given
                       ELSE IF config = NoConfig THEN DefaultConfig ELSE config
           /\ ret' = Return("__init__", AConfig(config), made.raised,
                            IF made.raised THEN VError(made.value) ELSE VInstance)
    /\ calls' = << >>
    /\ lib' = << >>
    /\ enum' = << >>
    /\ UNCHANGED <<fs, driver>>

\* processor.validate_file(file_path)
ValidateFile(file_path) ==
    /\ pc = "library"
    /\ proc.constructed
    /\ ret' = Return("validate_file", APath(file_path), FALSE,
                  VBool(validate_file(file_path)))
    /\ calls' = << >>
    /\ lib' = << >>
    /\ enum' = << >>
    /\ UNCHANGED <<fs, proc, given, driver>>

\* processor.process(file_path)
Process(file_path, o) ==
    /\ pc = "library"
    /\ proc.constructed
    /\ LET r == process(proc, file_path, o)
       IN  /\ ret' = Return("process", APath(file_path), FALSE, VResult(r.result))
           /\ calls' = r.calls
           /\ lib' = IF r.calls = << >> THEN << >> ELSE <<o>>
    /\ enum' = << >>
    /\ UNCHANGED <<fs, proc, given, driver>>

\* processor.process_directory(directory_path)
ProcessDirectory(directory_path) ==
    /\ pc = "library"
    /\ proc.constructed
    /\ \E files \in Orders(GlobPdf(directory_path)) :
       \E outs \in BatchOutcomes(files) :
          LET r == process_directory(proc, directory_path, files, outs)
          IN  /\ ret' = Return("process_directory", APath(directory_path), r.raised,
                            IF r.raised THEN VError(r.value) ELSE VResults(r.value))
              /\ calls' = r.calls
              /\ lib' = IF r.raised THEN << >> ELSE outs
              /\ enum' = IF r.raised THEN << >> ELSE files
    /\ UNCHANGED <<fs, proc, given, driver>>

\* processor.get_config()
GetConfig ==
    /\ pc = "library"
    /\ proc.constructed
    /\ ret' = Return("get_config", Nothing, FALSE, VConfig(get_config(proc)))
    /\ calls' = << >>
    /\ lib' = << >>
    /\ enum' = << >>
    /\ UNCHANGED <<fs, proc, given, driver>>

\* processor.update_config(config)
UpdateConfig(config) ==
    /\ pc = "library"
    /\ proc.constructed
    /\ LET r == update_config(proc, config)
       IN  /\ proc' = r.self
           /\ ret' = Return("update_config", AConfig(config), r.raised,
                            IF r.raised THEN VError(r.value) ELSE Nothing)
    /\ given' = config
    /\ calls' = << >>
    /\ lib' = << >>
    /\ enum' = << >>
    /\ UNCHANGED <<fs, driver>>

\* docling_process(file_path, config)
DoclingProcess(file_path, config, o) ==
    /\ pc = "library"
    /\ LET r == docling_process(file_path, config, o)
       IN  /\ ret' = Return("docling_process", APath(file_path), r.raised,
                            IF r.raised THEN VError(r.value) ELSE VResult(r.value))
           /\ calls' = r.calls
           /\ lib' = IF r.calls = << >> THEN << >> ELSE <<o>>
    /\ enum' = << >>
    /\ UNCHANGED <<fs, proc, given, driver>>

\* one processor instance and the calls on it, over the filesystems
Next ==
    \/ \E c \in Configs \cup {NoConfig} : Construct(c)
    \/ \E p \in Paths : ValidateFile(p)
    \/ \E p \in Paths : \E o \in OutcomesFor(p) : Process(p, o)
    \/ \E d \in Paths : ProcessDirectory(d)
    \/ GetConfig
    \/ \E c \in Configs : UpdateConfig(c)
    \/ \E p \in Paths, c \in {NoConfig, EasyOcrConfig} :
          \E o \in OutcomesFor(p) : DoclingProcess(p, c, o)

Spec == Init /\ [][Next]_vars

(***************************************************************************)
(* Construction and configuration, over all the configurations             *)
(***************************************************************************)
\* the input directory holds a.pdf or nothing
InitConfig ==
    /\ Init
    /\ \A p \in Entries : Name(p) # N_a => fs[p] = "absent"

ConfigPaths == {InDir \o <<N_a>>, InDir \o <<N_c>>}

NextConfig ==
    \/ \E c \in AllConfigs \cup {NoConfig} : Construct(c)
    \/ \E c \in AllConfigs : UpdateConfig(c)
    \/ GetConfig
    \/ \E p \in ConfigPaths : ValidateFile(p)
    \/ \E p \in ConfigPaths : \E o \in OutcomesFor(p) : Process(p, o)
    \/ \E p \in ConfigPaths, c \in AllConfigs \cup {NoConfig} :
          \E o \in OutcomesFor(p) : DoclingProcess(p, c, o)

SpecConfig == InitConfig /\ [][NextConfig]_vars

(***************************************************************************)
(* The driver (__main__), run on the input directory InDir                 *)
(***************************************************************************)
InitCLI ==
    /\ fs \in FileSystems
    /\ proc = NoProc
    /\ given = NoConfig
    /\ ret = NoCall
    /\ calls = << >>
    /\ lib = << >>
    /\ enum = << >>
    /\ pc = "start"
    /\ exit_code = << >>
    /\ failed = {}
    /\ written = {}

\* pdf_files[0]
pdf_path == enum[1]

\* the three files the driver writes for one result
OutputFiles(dir, base, result) ==
    {[dir |-> dir, name |-> <<base, ".md">>, text |-> result.content],
     [dir |-> dir, name |-> <<base, ".json">>, text |-> result.json_content],
     [dir |-> dir, name |-> <<base, "_metadata.json">>, text |-> JsonDumps(result.metadata)]}

\* an exception nothing catches ends the interpreter with status 1
Uncaught ==
    /\ pc' = "exited"
    /\ exit_code' = <<1>>

\* pdf_files = list(assets_dir.glob("*.pdf")); exit(1) when it is empty
CliGlob ==
    /\ pc = "start"
    /\ \E files \in Orders(GlobPdf(InDir)) :
          /\ enum' = files
          /\ IF files = << >>
             THEN /\ pc' = "exited"
                  /\ exit_code' = <<1>>
             ELSE /\ pc' = "example1"
                  /\ exit_code' = exit_code
    /\ UNCHANGED <<fs, proc, given, ret, calls, lib, failed, written>>

\* Example 1: docling_process(str(pdf_path)); the outputs are written
\* whether or not the result is a success
CliExample1 ==
    /\ pc = "example1"
    /\ IF Exists(pdf_path)
       THEN \E o \in OutcomesFor(pdf_path) :
              LET r == docling_process(pdf_path, NoConfig, o)
              IN  /\ ret' = Return("docling_process", APath(pdf_path), r.raised,
                                  IF r.raised THEN VError(r.value) ELSE VResult(r.value))
                  /\ calls' = r.calls
                  /\ lib' = IF r.calls = << >> THEN << >> ELSE <<o>>
                  /\ IF r.raised
                     THEN Uncaught /\ UNCHANGED <<failed, written>>
                     ELSE /\ pc' = "example2"
                          /\ exit_code' = exit_code
                          /\ failed' = IF r.value.success THEN failed
                                       ELSE failed \cup {"example1"}
                          /\ written' = written \cup
                                OutputFiles("example1", Stem(pdf_path), r.value)
       ELSE /\ pc' = "example2"
            /\ UNCHANGED <<ret, calls, lib, exit_code, failed, written>>
    /\ UNCHANGED <<fs, proc, given, enum>>

\* Example 2: a processor with the custom configuration; the outputs are
\* written only for a success
CliExample2 ==
    /\ pc = "example2"
    /\ LET made == NewProcessor(CustomConfig)
       IN  IF made.raised
           THEN /\ Uncaught
                /\ ret' = Return("__init__", AConfig(CustomConfig), TRUE, VError(made.value))
                /\ UNCHANGED <<proc, given, calls, lib, failed, written>>
           ELSE /\ proc' = made.value
                /\ given' = CustomConfig
                /\ pc' = "example3"
                /\ exit_code' = exit_code
                /\ IF Exists(pdf_path)
                   THEN \E o \in OutcomesFor(pdf_path) :
                          LET r == process(made.value, pdf_path, o)
                          IN  /\ ret' = Return("process", APath(pdf_path), FALSE, VResult(r.result))
                              /\ calls' = r.calls
                              /\ lib' = IF r.calls = << >> THEN << >> ELSE <<o>>
                              /\ failed' = IF r.result.success THEN failed
                                           ELSE failed \cup {"example2"}
                              /\ written' = IF r.result.success
                                            THEN written \cup
                                                 OutputFiles("example2",
                                                     <<Stem(pdf_path), "_custom">>, r.result)
                                            ELSE written
                   ELSE UNCHANGED <<ret, calls, lib, failed, written>>
    /\ UNCHANGED <<fs, enum>>

\* the results of a batch that are no success
Failures(results) == {i \in DOMAIN results : ~results[i].success}

\* Example 3: a processor with the defaults and process_directory inside
\* try/except ValueError; the outputs are written for each success
CliExample3 ==
    /\ pc = "example3"
    /\ LET made == NewProcessor(NoConfig)
       IN  IF made.raised
           THEN /\ Uncaught
                /\ ret' = Return("__init__", AConfig(NoConfig), TRUE, VError(made.value))
                /\ UNCHANGED <<proc, given, calls, lib, enum, failed, written>>
           ELSE /\ proc' = made.value
                /\ given' = DefaultConfig
                /\ pc' = "summary"
                /\ exit_code' = exit_code
                /\ IF Exists(InDir)
                   THEN \E globbed \in {GlobPdf(InDir)} :
                        \E files \in Orders(globbed) :
                        \E outs \in BatchOutcomes(files) :
                          /\ enum' = IF IsDir(InDir) THEN files ELSE enum
                          /\ lib' = IF IsDir(InDir) THEN outs ELSE lib
                          /\ \E r \in {process_directory(made.value, InDir, files, outs)} :
                              /\ ret' = Return("process_directory", APath(InDir), r.raised,
                                  IF r.raised THEN VError(r.value) ELSE VResults(r.value))
                              /\ calls' = r.calls
                              /\ failed' = IF r.raised \/ Failures(r.value) = {}
                                           THEN failed ELSE failed \cup {"example3"}
                              /\ written' = IF r.raised THEN written
                                            ELSE written \cup UNION
                                                 {OutputFiles("example3_batch",
                                                      Stem(r.value[i].file_path), r.value[i]) :
                                                  i \in DOMAIN r.value \ Failures(r.value)}
                   ELSE UNCHANGED <<ret, calls, lib, enum, failed, written>>
    /\ UNCHANGED fs

\* a driver whose exit status reports the failed results
CliSummaryStatusOfFailures ==
    /\ pc = "summary"
    /\ pc' = "done"
    /\ exit_code' = IF failed = {} THEN <<0>> ELSE <<1>>
    /\ UNCHANGED <<fs, proc, given, ret, calls, lib, enum, failed, written>>

\* the summary is printed and the script ends
CliSummary ==
    /\ pc = "summary"
    /\ pc' = "done"
    /\ exit_code' = <<0>>
    /\ UNCHANGED <<fs, proc, given, ret, calls, lib, enum, failed, written>>

NextCLI ==
    \/ CliGlob
    \/ CliExample1
    \/ CliExample2
    \/ CliExample3
    \/ CliSummary

SpecCLI == InitCLI /\ [][NextCLI]_vars

(***************************************************************************)
(* The claims                                                              *)
(***************************************************************************)
\* a name with a stem and the extension .pdf in some spelling
HasPdfExtension(name) ==
    /\ Len(name) > 4
    /\ name[Len(name) - 3] = "."
    /\ name[Len(name) - 2] \in {"p", "P"}
    /\ name[Len(name) - 1] \in {"d", "D"}
    /\ name[Len(name)] \in {"f", "F"}

\* the path exists, is a regular file and has the extension .pdf
IsValidPdf(path) == fs[path] = "file" /\ HasPdfExtension(Name(path))

\* the result of a rejected file
InvalidFileResult(path) ==
    [success |-> FALSE, content |-> << >>, json_content |-> << >>, metadata |-> EmptyDict,
     error_message |-> [is_none |-> FALSE, text |-> <<"Invalid file">>],
     file_path |-> path]

\* a call made by the conversion o under the configuration config raises
Raises(config, o) ==
    o.raises # "none" \/ config.image_export_mode \notin {"placeholder", "embedded", "referenced"}

\* C1: process on a path that does not exist, is no regular file or has no
\* .pdf extension returns the "Invalid file" result with empty contents and
\* the given path, and the converter is not called.
C1_InvalidFile ==
    (ret.op = "process" /\ ~IsValidPdf(ret.arg.path)) =>
        /\ ~ret.raised
        /\ ret.value.result = InvalidFileResult(ret.arg.path)
        /\ calls = << >>

\* process was called on an existing regular file that is no PDF
C1_Witness ==
    /\ ret.op = "process"
    /\ fs[ret.arg.path] = "file"
    /\ ~HasPdfExtension(Name(ret.arg.path))
    /\ ret.value.result.error_message.text = <<"Invalid file">>

\* C2: when a call made for a valid PDF raises (the conversion, the image
\* mode, an export, the metadata), process returns a failed result with
\* empty contents and a message "Error processing <file_path>: ..." that
\* carries the traceback; nothing escapes.
C2_ExceptionWrapped ==
    (ret.op = "process" /\ IsValidPdf(ret.arg.path) /\ Raises(proc.config, lib[1])) =>
        /\ ~ret.raised
        /\ ret.value.result.success = FALSE
        /\ ret.value.result.content = << >>
        /\ ret.value.result.json_content = << >>
        /\ ret.value.result.metadata = EmptyDict
        /\ ret.value.result.file_path = ret.arg.path
        /\ ~ret.value.result.error_message.is_none
        /\ LET text == ret.value.result.error_message.text
           IN  /\ Len(text) = 6
               /\ SubSeq(text, 1, 3) = <<"Error processing ", ret.arg.path, ": ">>
               /\ text[6][1] = "Traceback (most recent call last):"

\* the metadata extraction raised after both exports had succeeded
C2_Witness ==
    /\ ret.op = "process"
    /\ IsValidPdf(ret.arg.path)
    /\ lib # << >>
    /\ lib[1].raises = "stat"
    /\ proc.config.image_export_mode = "embedded"
    /\ ~ret.value.result.success

\* C3 as stated: a valid PDF whose conversion raises nothing gives
\* success, no error message, non-empty markdown and metadata with
\* file_name, file_size and num_pages.
C3_AsStated ==
    (ret.op = "process" /\ IsValidPdf(ret.arg.path) /\ ~Raises(proc.config, lib[1])) =>
        /\ ret.value.result.success
        /\ ret.value.result.error_message.is_none
        /\ ret.value.result.content # << >>
        /\ {"file_name", "file_size", "num_pages"} \subseteq DOMAIN ret.value.result.metadata

\* C3 amended: the content is the markdown the export returned, which is
\* empty for a document without text; the rest as stated.
C3_SuccessResult ==
    (ret.op = "process" /\ IsValidPdf(ret.arg.path) /\ ~Raises(proc.config, lib[1])) =>
        /\ ~ret.raised
        /\ ret.value.result.success
        /\ ret.value.result.error_message.is_none
        /\ ret.value.result.content = lib[1].doc.markdown
        /\ {"file_name", "file_size", "num_pages"} \subseteq DOMAIN ret.value.result.metadata
        /\ ret.value.result.metadata.file_name = ret.arg.path[Len(ret.arg.path)]
        /\ ret.value.result.file_path = ret.arg.path

\* a valid PDF of blank pages was processed: a success with empty content
C3_Witness ==
    /\ ret.op = "process"
    /\ IsValidPdf(ret.arg.path)
    /\ ret.value.result.success
    /\ ret.value.result.content = << >>
    /\ "num_pages" \in DOMAIN ret.value.result.metadata

\* the entries directly under dir whose names end in ".pdf"
MatchingEntries(dir) ==
    {p \in Paths : /\ Len(p) = Len(dir) + 1
                   /\ \A i \in 1..Len(dir) : p[i] = dir[i]
                   /\ fs[p] # "absent"
                   /\ LET n == p[Len(p)]
                      IN  /\ Len(n) >= 4
                          /\ <<n[Len(n) - 3], n[Len(n) - 2], n[Len(n) - 1], n[Len(n)]>>
                               = <<".", "p", "d", "f">>}

\* the entries that exist under dir, at any depth
EntriesBelow(dir) ==
    {p \in Paths : Len(p) > Len(dir) /\ (\A i \in 1..Len(dir) : p[i] = dir[i])
                   /\ fs[p] # "absent"}

\* C4: process_directory on an existing directory returns exactly one
\* result per entry matching "*.pdf" directly under it: none for another
\* entry or for an entry of a subdirectory, and none twice.
C4_OneResultPerMatch ==
    (ret.op = "process_directory" /\ fs[ret.arg.path] = "dir") =>
        /\ ~ret.raised
        /\ Len(ret.value.results) = Cardinality(MatchingEntries(ret.arg.path))
        /\ {ret.value.results[i].file_path : i \in DOMAIN ret.value.results}
             = MatchingEntries(ret.arg.path)

\* a batch over a directory holding matching entries beside an entry that
\* does not match or lies in a subdirectory
C4_Witness ==
    /\ ret.op = "process_directory"
    /\ ~ret.raised
    /\ Len(ret.value.results) >= 1
    /\ EntriesBelow(ret.arg.path) \ MatchingEntries(ret.arg.path) # {}

\* C5: process_directory on a path that does not exist or is no directory
\* raises ValueError, before any file is processed.
C5_MissingDirectoryRaises ==
    (ret.op = "process_directory" /\ fs[ret.arg.path] # "dir") =>
        /\ ret.raised
        /\ ret.value.error.exc = "ValueError"
        /\ calls = << >>
        /\ enum = << >>

\* process_directory was called on a regular file
C5_Witness ==
    /\ ret.op = "process_directory"
    /\ fs[ret.arg.path] = "file"
    /\ ret.raised

\* the engine name is target in some spelling of upper and lower case
SpellsEngine(engine, target) ==
    /\ Len(engine) = Len(target)
    /\ \A i \in 1..Len(target) :
          \/ engine[i] = target[i]
          \/ \E k \in DOMAIN LowerCase : LowerCase[k] = target[i] /\ UpperCase[k] = engine[i]

KnownEngine(engine) ==
    \/ SpellsEngine(engine, <<"r","a","p","i","d","o","c","r">>)
    \/ SpellsEngine(engine, <<"t","e","s","s","e","r","o","c","r">>)
    \/ SpellsEngine(engine, <<"t","e","s","s","e","r","a","c","t">>)

\* the constructor was handed a configuration object
ConstructedWith == ret.op = "__init__" /\ "ocr_engine" \in DOMAIN ret.arg.config

\* the constructor raised ValueError and left no processor and no conversion
ConstructionRejected ==
    /\ ret.raised
    /\ ret.value.error.exc = "ValueError"
    /\ ~proc.constructed
    /\ calls = << >>

\* C6 as stated: an unknown ocr_engine fails the construction whatever the
\* other fields are, ocr_enabled included.
C6_AsStated ==
    (ConstructedWith /\ ~KnownEngine(ret.arg.config.ocr_engine)) => ConstructionRejected

\* C6 amended: with ocr_enabled true an unknown ocr_engine fails the
\* construction with ValueError, whatever the other fields are, and no
\* converter is created and nothing converted; with ocr_enabled false the
\* engine name is not examined and the construction succeeds.
C6_UnknownEngineRejected ==
    ConstructedWith =>
        IF ret.arg.config.ocr_enabled /\ ~KnownEngine(ret.arg.config.ocr_engine)
        THEN ConstructionRejected
        ELSE ~ret.raised /\ proc.constructed

\* a construction with OCR enabled, an unknown engine and a non-default
\* image_export_mode was rejected
C6_Witness ==
    /\ ConstructedWith
    /\ ret.arg.config.ocr_enabled
    /\ ~KnownEngine(ret.arg.config.ocr_engine)
    /\ ret.arg.config.image_export_mode = "inline"
    /\ ret.raised

\* C7: the constructor keeps the configuration it is given (the defaults
\* when given none), get_config returns the configuration last handed in,
\* and process, process_directory, validate_file and get_config leave it
\* alone: it changes only in update_config.
C7_ConfigRoundTrip ==
    [][/\ (ret'.op = "__init__" /\ ~ret'.raised) =>
            /\ proc'.constructed
            /\ proc'.config = IF "ocr_engine" \in DOMAIN ret'.arg.config
                               THEN ret'.arg.config ELSE DefaultConfig
       /\ ret'.op = "get_config" => ret'.value.config = given /\ ret'.value.config = proc.config
       /\ (proc.constructed /\ ret'.op \in {"process", "process_directory",
                                              "validate_file", "get_config"})
            => proc'.config = proc.config
       /\ (proc.constructed /\ proc'.config # proc.config) => ret'.op = "update_config"
      ]_vars

\* get_config returned the configuration the processor was given
C7_Witness ==
    /\ ret.op = "get_config"
    /\ ret.value.config = TesseractConfig
    /\ given = TesseractConfig

\* the input directory yields no PDF file
NoPdfFiles == fs[InDir] # "dir" \/ MatchingEntries(InDir) = {}

\* the exit status is 1 exactly where no PDF file was found, and then no
\* example has run
ExitStatusOk ==
    /\ pc = "exited" =>
          /\ exit_code = <<1>>
          /\ NoPdfFiles
          /\ ret.op = "none"
          /\ written = {}
          /\ calls = << >>
    /\ pc = "done" => exit_code = <<0>> /\ ~NoPdfFiles
    /\ exit_code # << >> => pc \in {"exited", "done"}
    /\ NoPdfFiles => pc \in {"start", "exited", "library"}

\* how far the driver has come
Position ==
    [p \in {"start", "example1", "example2", "example3", "summary", "exited", "done"} |->
        CASE p = "start"    -> 0
          [] p = "example1" -> 1
          [] p = "example2" -> 2
          [] p = "example3" -> 3
          [] p = "summary"  -> 4
          [] OTHER          -> 5]

\* C8: the driver exits with status 1 when the input directory yields no
\* PDF file, before any example runs; every other run goes on to its end
\* (it always has a next step until it has ended, and every step brings it
\* further) and ends with status 0, whatever results failed.
C8_ExitStatus ==
    /\ []ExitStatusOk
    /\ [](pc \notin {"exited", "done"} => ENABLED <<NextCLI>>_vars)
    /\ [][Position[pc'] > Position[pc]]_vars

\* a run in which every example got a failed result ended with status 0
C8_Witness ==
    /\ pc = "done"
    /\ failed = {"example1", "example2", "example3"}
    /\ exit_code = <<0>>

\* C9: validate_file returns true exactly for an existing regular file
\* with a .pdf extension in any case, raises nothing, converts nothing and
\* changes neither the filesystem nor the processor, so that every later
\* call of process gives what it would have given before.
C9_ValidateFilePure ==
    [][ret'.op = "validate_file" =>
          /\ ret'.value.bool = IsValidPdf(ret'.arg.path)
          /\ ~ret'.raised
          /\ calls' = << >>
          /\ UNCHANGED <<fs, proc, written>>
          /\ \A p \in Paths : \A o \in OutcomesFor(p) :
                process(proc', p, o) = process(proc, p, o)
      ]_vars

\* validate_file accepted a file with an upper-case extension
C9_Witness ==
    /\ ret.op = "validate_file"
    /\ ret.value.bool = TRUE
    /\ ret.arg.path[Len(ret.arg.path)] = <<"b", ".", "P", "D", "F">>

\* the number of valid PDFs among the first i enumerated files
RECURSIVE ValidUpTo(_)
ValidUpTo(i) ==
    IF i = 0 THEN 0
    ELSE ValidUpTo(i - 1) + (IF IsValidPdf(enum[i]) THEN 1 ELSE 0)

\* C10: process_directory returns one result per enumerated file, in
\* enumeration order and for that file; each valid file is converted once,
\* in order; a rejected file gets the "Invalid file" result and a file whose
\* conversion raises a failed result, and the files after it are processed
\* all the same.
C10_BatchInOrder ==
    (ret.op = "process_directory" /\ ~ret.raised) =>
        /\ Len(ret.value.results) = Len(enum)
        /\ \A i \in DOMAIN enum : \A j \in DOMAIN enum : enum[i] = enum[j] => i = j
        /\ calls = SelectSeq(enum, IsValidPdf)
        /\ \A i \in DOMAIN enum :
              /\ ret.value.results[i].file_path = enum[i]
              /\ IF IsValidPdf(enum[i])
                 THEN ret.value.results[i].success = ~Raises(proc.config, lib[ValidUpTo(i)])
                 ELSE ret.value.results[i] = InvalidFileResult(enum[i])

\* a batch whose first file failed in the conversion and whose second file
\* succeeded
C10_Witness ==
    /\ ret.op = "process_directory"
    /\ ~ret.raised
    /\ Len(ret.value.results) = 2
    /\ ~ret.value.results[1].success
    /\ ret.value.results[1].error_message.text # <<"Invalid file">>
    /\ ret.value.results[2].success

\* what holds of a result returned for the path string file_path
ResultInvariant(r, file_path) ==
    /\ r.success <=> r.error_message = None
    /\ ~r.success =>
          /\ r.content = << >>
          /\ r.json_content = << >>
          /\ DOMAIN r.metadata = {}
    /\ r.file_path = file_path

\* C11: in every result that process, docling_process or process_directory
\* returns, success is true exactly when error_message is None, a failed
\* result has empty content, empty json_content and empty metadata, and
\* file_path is the path that was passed to process for that result.
C11_ResultInvariants ==
    /\ (ret.op \in {"process", "docling_process"} /\ ~ret.raised) =>
          ResultInvariant(ret.value.result, ret.arg.path)
    /\ (ret.op = "process_directory" /\ ~ret.raised) =>
          /\ DOMAIN ret.value.results = DOMAIN enum
          /\ \A i \in DOMAIN enum : ResultInvariant(ret.value.results[i], enum[i])

\* docling_process returned a failed result for an exception of the
\* conversion, and the result bears the path it was called with
C11_Witness ==
    /\ ret.op = "docling_process"
    /\ ~ret.raised
    /\ ~ret.value.result.success
    /\ ret.value.result.error_message.text # <<"Invalid file">>
    /\ ret.value.result.file_path = ret.arg.path

\* the converter the processor holds is the one _initialize_converter builds
\* from the configuration get_config returns
ConverterMatchesConfig ==
    proc.constructed =>
        /\ ~InitializeConverter(get_config(proc)).raised
        /\ proc.converter = InitializeConverter(get_config(proc)).value

\* C12: after any sequence of constructions and update_config calls, the
\* converter the processor holds is the one built from the configuration
\* get_config returns, and an update_config call that raises leaves the
\* configuration and the converter as they were before the call.
C12_AsStated ==
    /\ []ConverterMatchesConfig
    /\ [][(ret'.op = "update_config" /\ ret'.raised) => proc' = proc]_vars

\* update_config raised for an unknown OCR engine, and the processor now
\* returns the rejected configuration while it holds the converter of the
\* configuration it had before
C12_Witness ==
    /\ ret.op = "update_config"
    /\ ret.raised
    /\ ret.value.error.exc = "ValueError"
    /\ get_config(proc) = ret.arg.config
    /\ InitializeConverter(get_config(proc)).raised
    /\ proc.converter = InitializeConverter(DefaultConfig).value

====
